---- MODULE Spec2Model ----
(***************************************************************************)
(* molsystem._Table (src/molsystem/table.py): a dictionary-like wrapper    *)
(* around one SQL table.  The model keeps the state of the store that the  *)
(* table's statements act on (schema, rows, the temporary table of the     *)
(* rebuild, the alias bound by ATTACH) and translates every method of      *)
(* _Table statement by statement.                                          *)
(*                                                                         *)
(* Two table handles exist: A lives in store 1, B lives in store 1 or in   *)
(* store 2.  Statements are visible on the connection as soon as they      *)
(* are executed; transaction scopes belong to the owning System, which is  *)
(* outside table.py.                                                       *)
(***************************************************************************)
EXTENDS Integers, Sequences, FiniteSets, TLC

VARIABLES tbl, tmp, attached, file, res

vars == <<tbl, tmp, attached, file, res>>

-----------------------------------------------------------------------------
(* Bounds                                                                  *)

\* largest number of rows a table may hold in an explored state
MaxRows == 2

\* largest number of rows of the table in the schema machine
MaxSchemaRows == 1

\* largest number of rows of a table in the two-table comparison machine
MaxCmpRows == 1

\* largest number of rows of the table in the attribute-definition machine
MaxAddRows == 2

-----------------------------------------------------------------------------
(* Values                                                                  *)

\* SQL NULL, Python None
Null == 0

\* a Python list handed to the store as ONE parameter (an empty list has
\* length 0 and is therefore treated as a scalar); sqlite3 cannot bind it
ListObj == 9

Handles == {"A", "B"}

Names == {"a", "b", "c"}

\* a value argument: a scalar (s holds the one value), a sequence, or None
Scalar(v) == [k |-> "scalar", s |-> <<v>>]

SeqArg(s) == [k |-> "seq", s |-> s]

NoValues == [k |-> "none", s |-> <<>>]

\* the table that does not exist in the store
NoTable == [exists |-> FALSE, cols |-> <<>>, rows |-> <<>>]

-----------------------------------------------------------------------------
(* Sequence helpers                                                        *)

Range(s) == {s[i] : i \in DOMAIN s}

Max(S) == CHOOSE x \in S : \A y \in S : y <= x

\* the injective sequences (orderings) of the finite set S
Perms(S) ==
  {p \in [1..Cardinality(S) -> S] : \A i, j \in 1..Cardinality(S) : p[i] = p[j] => i = j}

\* the elements of S, a set of integers, in increasing order
RECURSIVE SortInts(_)
SortInts(S) ==
  IF S = {} THEN <<>>
  ELSE LET m == CHOOSE x \in S : \A y \in S : x <= y
       IN <<m>> \o SortInts(S \ {m})

-----------------------------------------------------------------------------
(* The store: what the SQL statements issued by table.py do                *)

\* the attribute names of t in definition (cid) order
ColNames(t) == [i \in DOMAIN t.cols |-> t.cols[i].name]

NameSet(t) == Range(ColNames(t))

ColOf(t, name) == CHOOSE c \in Range(t.cols) : c.name = name

RowIds(t) == {t.rows[i].id : i \in DOMAIN t.rows}

RowOf(t, id) == CHOOSE r \in Range(t.rows) : r.id = id

\* SELECT COUNT(*) FROM t
CountRows(t) == Len(t.rows)

\* the indexed attributes of t
IndexedNames(t) == {c.name : c \in {d \in Range(t.cols) : d.index # "none"}}

\* rowids in the order of an index on attribute name: by value (NULL first),
\* then by rowid
RECURSIVE IndexOrder(_, _, _)
IndexOrder(t, name, ids) ==
  IF ids = {} THEN <<>>
  ELSE LET m == CHOOSE x \in ids : \A y \in ids :
                   \/ RowOf(t, x).v[name] < RowOf(t, y).v[name]
                   \/ /\ RowOf(t, x).v[name] = RowOf(t, y).v[name]
                      /\ x <= y
       IN <<m>> \o IndexOrder(t, name, ids \ {m})

\* The order in which a full scan selecting the attributes in wanted (rowid
\* is always available) visits the rows: the engine scans a covering index
\* when one exists, otherwise the table in rowid order.
ScanOrder(t, wanted) ==
  LET covering == {n \in IndexedNames(t) : wanted \subseteq {n}}
  IN IF covering = {} THEN SortInts(RowIds(t))
     ELSE IndexOrder(t, CHOOSE n \in covering : TRUE, RowIds(t))

\* a value the store can bind as a statement parameter
Bindable(v) == v # ListObj

\* would the table violate a NOT NULL or UNIQUE constraint?
ViolatesConstraint(t) ==
  \/ \E c \in Range(t.cols) : \E r \in Range(t.rows) :
        c.notnull /\ r.v[c.name] = Null
  \/ \E c \in Range(t.cols) : \E r1, r2 \in Range(t.rows) :
        /\ c.index = "unique"
        /\ r1.id # r2.id
        /\ r1.v[c.name] # Null
        /\ r1.v[c.name] = r2.v[c.name]

\* INSERT INTO t (keys) VALUES (line): one row; attributes not named get
\* their default, the rowid is one more than the largest in use
InsertRow(t, given) ==
  LET id == IF t.rows = <<>> THEN 1 ELSE Max(RowIds(t)) + 1
      v  == [n \in NameSet(t) |->
               IF n \in DOMAIN given THEN given[n] ELSE ColOf(t, n).dflt]
  IN [t EXCEPT !.rows = Append(t.rows, [id |-> id, v |-> v])]

\* UPDATE t SET key = val WHERE rowid = id
UpdateRow(t, key, val, id) ==
  [t EXCEPT !.rows = [i \in DOMAIN t.rows |->
      IF t.rows[i].id = id
      THEN [t.rows[i] EXCEPT !.v = [t.rows[i].v EXCEPT ![key] = val]]
      ELSE t.rows[i]]]

\* UPDATE t SET key = val
UpdateAll(t, key, val) ==
  [t EXCEPT !.rows = [i \in DOMAIN t.rows |->
      [t.rows[i] EXCEPT !.v = [t.rows[i].v EXCEPT ![key] = val]]]]

-----------------------------------------------------------------------------
(* _Table: lengths and row insertion                                       *)

\* 0 for a scalar (and for an empty sequence), else the number of elements
length_of_values(values) == IF values.k = "seq" THEN Len(values.s) ELSE 0

\* The first loop of append over the keyword arguments kw, from argument i
\* on, with n the row count implied so far (0 while it is still None).
RECURSIVE CheckKeys(_, _, _, _)
CheckKeys(t, kw, i, n) ==
  IF i > Len(kw) THEN [err |-> "ok", n |-> n]
  ELSE IF kw[i].key \notin NameSet(t)
  THEN [err |-> "UnknownAttributeError", n |-> n]
  ELSE LET length == length_of_values(kw[i].val)
           n1     == IF n = 0 THEN (IF length = 0 THEN 1 ELSE length) ELSE n
       IN IF length > 1 /\ length # n1
          THEN IF n1 = 1
               THEN CheckKeys(t, kw, i + 1, length)
               ELSE [err |-> "ValueCountMismatchError", n |-> n1]
          ELSE CheckKeys(t, kw, i + 1, n1)

\* some attribute that is not supplied has no default
MissingDefault(t, kw) ==
  \E c \in Range(t.cols) :
     /\ c.name \notin {kw[i].key : i \in DOMAIN kw}
     /\ c.dflt = Null

\* the column of n values that append writes for one argument
Broadcast(val, n) ==
  LET length == length_of_values(val)
  IN IF length = 0
     THEN [r \in 1..n |-> IF val.k = "scalar" THEN val.s[1] ELSE ListObj]
     ELSE IF length = 1 THEN [r \in 1..n |-> val.s[1]]
     ELSE val.s

\* the parameter line of row r: one value for every supplied key
ParamLine(kw, n, r) ==
  [key \in {kw[i].key : i \in DOMAIN kw} |->
     LET i == CHOOSE j \in DOMAIN kw : kw[j].key = key
     IN Broadcast(kw[i].val, n)[r]]

\* executemany(INSERT ...): the lines are written one after the other; the
\* first line the store rejects raises and leaves the earlier ones written
RECURSIVE ExecuteManyInsert(_, _, _, _)
ExecuteManyInsert(t, kw, n, r) ==
  IF r > n THEN [t |-> t, out |-> "ok"]
  ELSE LET line == ParamLine(kw, n, r)
           t1   == InsertRow(t, line)
       IN IF \/ \E key \in DOMAIN line : ~Bindable(line[key])
             \/ ViolatesConstraint(t1)
          THEN [t |-> t, out |-> "StoreExecutionError"]
          ELSE ExecuteManyInsert(t1, kw, n, r + 1)

\* _Table.append(**kwargs); kw is the ordered list of keyword arguments
AppendRows(t, kw) ==
  LET chk == CheckKeys(t, kw, 1, 0)
  IN IF chk.err # "ok" THEN [t |-> t, out |-> chk.err]
     ELSE IF MissingDefault(t, kw) THEN [t |-> t, out |-> "MissingDefaultError"]
     ELSE IF chk.n = 0 THEN [t |-> t, out |-> "TypeError"]
     ELSE ExecuteManyInsert(t, kw, chk.n, 1)

-----------------------------------------------------------------------------
(* _Table: column access                                                   *)

\* _Table.__getitem__: SELECT key FROM t
GetItem(t, key) ==
  LET ids == ScanOrder(t, {key})
  IN [i \in DOMAIN ids |-> RowOf(t, ids[i]).v[key]]

\* execute(UPDATE t SET key = ?): one statement, applied to all rows or none
ExecUpdateAll(t, key, val) ==
  IF \/ ~t.exists
     \/ key \notin NameSet(t)
     \/ ~Bindable(val)
     \/ ViolatesConstraint(UpdateAll(t, key, val))
  THEN [t |-> t, out |-> "StoreExecutionError"]
  ELSE [t |-> UpdateAll(t, key, val), out |-> "ok"]

\* executemany(UPDATE t SET key = ? WHERE rowid = ?) from parameter i on
RECURSIVE ExecuteManyUpdate(_, _, _, _, _)
ExecuteManyUpdate(t, key, vals, ids, i) ==
  IF key \notin NameSet(t) THEN [t |-> t, out |-> "StoreExecutionError"]
  ELSE IF i > Len(vals) THEN [t |-> t, out |-> "ok"]
  ELSE LET t1 == UpdateRow(t, key, vals[i], ids[i])
       IN IF ~Bindable(vals[i]) \/ ViolatesConstraint(t1)
          THEN [t |-> t, out |-> "StoreExecutionError"]
          ELSE ExecuteManyUpdate(t1, key, vals, ids, i + 1)

\* _Table.__setitem__
SetItem(t, key, value) ==
  LET length == length_of_values(value)
  IN IF length = 1 THEN ExecUpdateAll(t, key, value.s[1])
     ELSE IF ~t.exists THEN [t |-> t, out |-> "StoreExecutionError"]
     ELSE IF length = CountRows(t)
     THEN IF value.k = "scalar"
          THEN [t |-> t, out |-> "TypeError"]
          ELSE ExecuteManyUpdate(t, key, value.s, ScanOrder(t, {}), 1)
     ELSE IF length = 0
     THEN ExecUpdateAll(t, key, IF value.k = "scalar" THEN value.s[1] ELSE ListObj)
     ELSE [t |-> t, out |-> "ValueCountMismatchError"]

-----------------------------------------------------------------------------
(* _Table: schema                                                          *)

\* CREATE [UNIQUE] INDEX idx_<name> ON t ('<name>'): index names are unique
\* in a store, and a unique index cannot be built over duplicates
CreateIndex(t, name, kind, idxTaken) ==
  LET t1 == [t EXCEPT !.cols = [i \in DOMAIN t.cols |->
                IF t.cols[i].name = name
                THEN [t.cols[i] EXCEPT !.index = kind]
                ELSE t.cols[i]]]
  IN IF name \in idxTaken \/ ViolatesConstraint(t1)
     THEN [t |-> t, out |-> "StoreExecutionError"]
     ELSE [t |-> t1, out |-> "ok"]

\* ALTER TABLE ADD as if the existing rows were filled with NULL
AlterTableAddNull(t, col) ==
  [t EXCEPT !.cols = Append(t.cols, col),
            !.rows = [i \in DOMAIN t.rows |->
               [t.rows[i] EXCEPT !.v =
                  [n \in NameSet(t) \cup {col.name} |->
                     IF n = col.name THEN Null ELSE t.rows[i].v[n]]]]]

\* ALTER TABLE t ADD <column_def>: existing rows get the default
AlterTableAdd(t, col) ==
  [t EXCEPT !.cols = Append(t.cols, col),
            !.rows = [i \in DOMAIN t.rows |->
               [t.rows[i] EXCEPT !.v =
                  [n \in NameSet(t) \cup {col.name} |->
                     IF n = col.name THEN col.dflt ELSE t.rows[i].v[n]]]]]

\* CREATE TABLE t (<column_def>)
CreateTable(col) == [exists |-> TRUE, cols |-> <<col>>, rows |-> <<>>]

\* the declared type the store reports for a column created as coltype
DeclType(coltype) == IF coltype = "int" THEN "INT" ELSE coltype

\* _Table.add_attribute(name, coltype, default, notnull, index, pk, values);
\* a holds the keyword arguments, idxTaken the index names used in the store
AddAttribute(t, name, a, values, idxTaken) ==
  LET table_exists == t.exists
      notnull == IF ~table_exists /\ a.pk THEN TRUE ELSE a.notnull
      length  == length_of_values(values)
      col == [name |-> name, type |-> DeclType(a.coltype), notnull |-> notnull,
              dflt |-> a.default, pk |-> table_exists /\ a.pk,
              index |-> "none"]
      t1  == IF table_exists THEN AlterTableAdd(t, col) ELSE CreateTable(col)
      ix  == IF a.index = "none" THEN [t |-> t1, out |-> "ok"]
             ELSE CreateIndex(t1, name, a.index, idxTaken)
  IN IF table_exists /\ a.pk THEN [t |-> t, out |-> "InvalidPrimaryKeyError"]
     ELSE IF name \in NameSet(t) THEN [t |-> t, out |-> "DuplicateAttributeError"]
     ELSE IF ~a.pk /\ notnull /\ a.default = Null
     THEN [t |-> t, out |-> "MissingDefaultError"]
     ELSE IF values # NoValues /\ length > 1 /\ ~table_exists
     THEN [t |-> t, out |-> "StoreExecutionError"]
     ELSE IF values # NoValues /\ length > 1 /\ length # CountRows(t)
     THEN [t |-> t, out |-> "ValueCountMismatchError"]
     ELSE IF ix.out # "ok" THEN ix
     ELSE IF values # NoValues THEN SetItem(ix.t, name, values)
     ELSE ix

\* the declared type CREATE TABLE ... AS SELECT gives a column: the name of
\* the affinity of the source column
CtasType(type) ==
  IF type = "INT" THEN "INT"
  ELSE IF type \in {"float", "REAL"} THEN "REAL"
  ELSE "NUM"

\* CREATE TABLE tmp_t AS SELECT <names> FROM t: the columns in the order of
\* names with no constraint, default or index, the rows renumbered in scan
\* order
CreateTableAsSelect(t, names) ==
  LET ids == ScanOrder(t, Range(names))
  IN [exists |-> TRUE,
      cols |-> [i \in DOMAIN names |->
                  [name |-> names[i], type |-> CtasType(ColOf(t, names[i]).type),
                   notnull |-> FALSE, dflt |-> Null, pk |-> FALSE,
                   index |-> "none"]],
      rows |-> [i \in DOMAIN ids |->
                  [id |-> i,
                   v |-> [n \in Range(names) |-> RowOf(t, ids[i]).v[n]]]]]

\* _Table.__delitem__(key).  order is the iteration order of the Python set
\* of the remaining names; failAt names the statement of the script at which
\* the store fails ("none": it does not).  The script is executed statement
\* by statement, each one taking effect when it is executed.
DelItem(t, tmpT, key, order, failAt) ==
  IF key \notin NameSet(t)
  THEN [t |-> t, tmp |-> tmpT, out |-> "UnknownAttributeError"]
  ELSE IF order = <<>> \/ tmpT.exists \/ failAt = "create"
  THEN [t |-> t, tmp |-> tmpT, out |-> "StoreExecutionError"]
  ELSE IF failAt = "drop"
  THEN [t |-> t, tmp |-> CreateTableAsSelect(t, order),
        out |-> "StoreExecutionError"]
  ELSE IF failAt = "rename"
  THEN [t |-> NoTable, tmp |-> CreateTableAsSelect(t, order),
        out |-> "StoreExecutionError"]
  ELSE [t |-> CreateTableAsSelect(t, order), tmp |-> tmpT, out |-> "ok"]

-----------------------------------------------------------------------------
(* _Table: comparison                                                      *)

\* one row of SELECT rowid, <names> FROM t
RowTuple(t, id, names) ==
  <<id>> \o [i \in DOMAIN names |-> RowOf(t, id).v[names[i]]]

\* the result set of SELECT rowid, <names> FROM t
SelectRows(t, names) == {RowTuple(t, id, names) : id \in RowIds(t)}

\* __eq__ without the comparison of the attribute names
EqualsNoColumnCheck(self, other, cross, att) ==
  IF ~self.exists \/ ~other.exists
  THEN [out |-> "StoreExecutionError", val |-> FALSE, att |-> att]
  ELSE IF CountRows(self) # CountRows(other)
  THEN [out |-> "ok", val |-> FALSE, att |-> att]
  ELSE IF cross /\ att
  THEN [out |-> "StoreExecutionError", val |-> FALSE, att |-> att]
  ELSE [out |-> "ok",
        val |-> SelectRows(self, ColNames(self))
                  = SelectRows(other, ColNames(other)),
        att |-> IF cross THEN FALSE ELSE att]

\* _Table.__eq__(other).  cross: the two tables have different file names;
\* att: the alias "other" is bound on the connection of self
Equals(self, other, cross, att) ==
  IF ~self.exists \/ ~other.exists
  THEN [out |-> "StoreExecutionError", val |-> FALSE, att |-> att]
  ELSE IF CountRows(self) # CountRows(other)
  THEN [out |-> "ok", val |-> FALSE, att |-> att]
  ELSE IF NameSet(self) # NameSet(other)
  THEN [out |-> "ok", val |-> FALSE, att |-> att]
  ELSE IF cross /\ att
  THEN [out |-> "StoreExecutionError", val |-> FALSE, att |-> att]
  ELSE LET mine   == SelectRows(self, ColNames(self))
           theirs == SelectRows(other, ColNames(other))
           is_same == IF Cardinality(theirs \ mine) # 0 THEN FALSE
                      ELSE IF Cardinality(mine \ theirs) # 0 THEN FALSE
                      ELSE TRUE
       IN [out |-> "ok", val |-> is_same, att |-> IF cross THEN FALSE ELSE att]

\* the report of diff with no entry
EmptyReport ==
  [colsAdded |-> {}, colsRemoved |-> {}, changed |-> {},
   added |-> {}, addedCols |-> <<>>, removed |-> {}, removedCols |-> <<>>]

\* the rows of the two difference queries of diff in the order of ORDER BY
\* rowid, for the rowids ids in increasing order: the row of the first
\* query (other EXCEPT self) before the row of the second
RECURSIVE DiffStream(_, _, _)
DiffStream(first, second, ids) ==
  IF ids = <<>> THEN <<>>
  ELSE LET id == Head(ids)
           f  == {r \in first : r[1] = id}
           g  == {r \in second : r[1] = id}
       IN (IF f = {} THEN <<>> ELSE <<CHOOSE r \in f : TRUE>>)
          \o (IF g = {} THEN <<>> ELSE <<CHOOSE r \in g : TRUE>>)
          \o DiffStream(first, second, Tail(ids))

\* the loop of diff over the stream from row i on; last = <<>> stands for
\* None; changed is a set of <<rowid, changes>> pairs
RECURSIVE ScanChanged(_, _, _, _, _)
ScanChanged(stream, keys, i, last, changed) ==
  IF i > Len(stream) THEN changed
  ELSE LET row == stream[i]
       IN IF last = <<>> THEN ScanChanged(stream, keys, i + 1, row, changed)
          ELSE IF row[1] = last[1]
          THEN LET changes == {<<keys[k], last[k], row[k]>> :
                                 k \in {j \in DOMAIN keys : last[j] # row[j]}}
               IN ScanChanged(stream, keys, i + 1, <<>>,
                              changed \cup {<<row[1], changes>>})
          ELSE ScanChanged(stream, keys, i + 1, row, changed)

\* the "changed" entries of diff: the scan of the two difference queries
DiffChanged(self, other) ==
  LET columns       == NameSet(self)
      other_columns == NameSet(other)
      \* the names selected from self and from other: * in the order of each
      \* table, or the common names in one order for both
      common == CHOOSE p \in Perms(other_columns \cap columns) : TRUE
      mine   == IF columns = other_columns THEN ColNames(self) ELSE common
      theirs == IF columns = other_columns THEN ColNames(other) ELSE common
      keys   == <<"rowid">> \o theirs
      first  == SelectRows(other, theirs) \ SelectRows(self, mine)
      second == SelectRows(self, mine) \ SelectRows(other, theirs)
      stream == DiffStream(first, second,
                           SortInts({r[1] : r \in first \cup second}))
  IN ScanChanged(stream, keys, 1, <<>>, {})

\* every row of self, as if the query had no WHERE clause
DiffAddedAll(self, other) ==
  {RowTuple(self, id, ColNames(self)) : id \in RowIds(self)}

\* the "added" entries of diff: SELECT rowid, * FROM self WHERE rowid NOT IN
\* (SELECT rowid FROM other)
DiffAdded(self, other) ==
  {RowTuple(self, id, ColNames(self)) : id \in RowIds(self) \ RowIds(other)}

\* the rows of self that other lacks, as if the query of "removed" had the
\* two tables exchanged
DiffRemovedSelf(self, other) ==
  {RowTuple(self, id, ColNames(self)) : id \in RowIds(self) \ RowIds(other)}

\* the "removed" entries of diff: SELECT rowid, * FROM other WHERE rowid NOT
\* IN (SELECT rowid FROM self)
DiffRemoved(self, other) ==
  {RowTuple(other, id, ColNames(other)) : id \in RowIds(other) \ RowIds(self)}

\* _Table.diff(other)
Diff(self, other, cross, att) ==
  LET columns       == NameSet(self)
      other_columns == NameSet(other)
      in_common     == other_columns \cap columns
      header == IF columns = other_columns THEN EmptyReport
                ELSE [EmptyReport EXCEPT !.colsAdded = columns \ other_columns,
                                         !.colsRemoved = other_columns \ columns]
      added   == DiffAdded(self, other)
      removed == DiffRemoved(self, other)
  IN IF columns # other_columns /\ in_common = {}
     THEN [out |-> "ok", val |-> header, att |-> att]
     ELSE IF cross /\ att
     THEN [out |-> "StoreExecutionError", val |-> EmptyReport, att |-> att]
     ELSE IF ~self.exists \/ ~other.exists
     THEN [out |-> "StoreExecutionError", val |-> EmptyReport,
           att |-> att \/ cross]
     ELSE [out |-> "ok",
           val |-> [header EXCEPT
                      !.changed = DiffChanged(self, other),
                      !.added = added,
                      !.addedCols = IF added = {} THEN <<>> ELSE ColNames(self),
                      !.removed = removed,
                      !.removedCols = IF removed = {} THEN <<>>
                                      ELSE ColNames(other)],
           att |-> IF cross THEN FALSE ELSE att]

-----------------------------------------------------------------------------
(* The state machine                                                       *)

Stores == {1, 2}

\* the index names in use in the store of handle h
IdxTaken(h) ==
  UNION {IndexedNames(tbl[g]) : g \in {x \in Handles : file[x] = file[h]}}

\* no keyword arguments of add_attribute
NoAttr ==
  [coltype |-> "", default |-> Null, notnull |-> FALSE, index |-> "none",
   pk |-> FALSE]

\* no removed column
NoOld == [type |-> "", vals |-> <<>>]

\* the declared type and the values, row by row, of the column key of t
OldColumn(t, key) ==
  [type |-> ColOf(t, key).type,
   vals |-> [i \in DOMAIN t.rows |-> t.rows[i].v[key]]]

\* the record of the last call: the method, the handles, the arguments (key,
\* value, a, kw, the statement failAt at which the store fails), the outcome
\* out and the value returned by == (same) or by diff (report); old is the
\* column that del removed, kept by an add_attribute of the same name on the
\* same handle that follows the del directly
NoRes ==
  [op |-> "init", h |-> "", o |-> "", key |-> "", value |-> NoValues,
   a |-> NoAttr, kw |-> <<>>, failAt |-> "none", out |-> "", same |-> FALSE,
   report |-> EmptyReport, old |-> NoOld]

\* after construction of the handles no table exists yet; A and B are in
\* different stores
Init ==
  /\ tbl = [h \in Handles |-> NoTable]
  /\ tmp = [h \in Handles |-> NoTable]
  /\ attached = [s \in Stores |-> FALSE]
  /\ file = [h \in Handles |-> IF h = "A" THEN 1 ELSE 2]
  /\ res = NoRes

\* as Init, with B in the store of A or in a second store
InitCmp ==
  /\ tbl = [h \in Handles |-> NoTable]
  /\ tmp = [h \in Handles |-> NoTable]
  /\ attached = [s \in Stores |-> FALSE]
  /\ file \in {[h \in Handles |-> IF h = "A" THEN 1 ELSE s] : s \in Stores}
  /\ res = NoRes

\* h.add_attribute(c.name, **c.a, values=c.values)
AddAttrAct(h, c) ==
  LET r == AddAttribute(tbl[h], c.name, c.a, c.values, IdxTaken(h))
  IN /\ tbl' = [tbl EXCEPT ![h] = r.t]
     /\ res' = [NoRes EXCEPT !.op = "add_attribute", !.h = h, !.key = c.name,
                             !.value = c.values, !.a = c.a, !.out = r.out,
                             !.old = IF /\ res.op = "del" /\ res.out = "ok"
                                        /\ res.h = h /\ res.key = c.name
                                     THEN res.old ELSE NoOld]
     /\ UNCHANGED <<tmp, attached, file>>

\* h.append(**kw), for the calls that keep the table within max rows
AppendAct(h, kw, max) ==
  LET r == AppendRows(tbl[h], kw)
  IN /\ CountRows(r.t) <= max
     /\ tbl' = [tbl EXCEPT ![h] = r.t]
     /\ res' = [NoRes EXCEPT !.op = "append", !.h = h, !.kw = kw,
                             !.out = r.out]
     /\ UNCHANGED <<tmp, attached, file>>

\* h[key] = value
SetItemAct(h, key, value) ==
  LET r == SetItem(tbl[h], key, value)
  IN /\ tbl' = [tbl EXCEPT ![h] = r.t]
     /\ res' = [NoRes EXCEPT !.op = "set", !.h = h, !.key = key,
                             !.value = value, !.out = r.out]
     /\ UNCHANGED <<tmp, attached, file>>

\* del h[key]
DelItemAct(h, key, failAt) ==
  \E order \in Perms(NameSet(tbl[h]) \ {key}) :
    LET r == DelItem(tbl[h], tmp[h], key, order, failAt)
    IN /\ tbl' = [tbl EXCEPT ![h] = r.t]
       /\ tmp' = [tmp EXCEPT ![h] = r.tmp]
       /\ res' = [NoRes EXCEPT !.op = "del", !.h = h, !.key = key,
                               !.failAt = failAt, !.out = r.out,
                               !.old = IF r.out = "ok"
                                       THEN OldColumn(tbl[h], key)
                                       ELSE NoOld]
       /\ UNCHANGED <<attached, file>>

\* h == o
EqualsAct(h, o) ==
  LET r == Equals(tbl[h], tbl[o], file[h] # file[o], attached[file[h]])
  IN /\ attached' = [attached EXCEPT ![file[h]] = r.att]
     /\ res' = [NoRes EXCEPT !.op = "eq", !.h = h, !.o = o, !.out = r.out,
                             !.same = r.val]
     /\ UNCHANGED <<tbl, tmp, file>>

\* h.diff(o)
DiffAct(h, o) ==
  LET r == Diff(tbl[h], tbl[o], file[h] # file[o], attached[file[h]])
  IN /\ attached' = [attached EXCEPT ![file[h]] = r.att]
     /\ res' = [NoRes EXCEPT !.op = "diff", !.h = h, !.o = o, !.out = r.out,
                             !.report = r.val]
     /\ UNCHANGED <<tbl, tmp, file>>

-----------------------------------------------------------------------------
(* Inputs                                                                  *)

\* keyword arguments of add_attribute
Attr(coltype, default, notnull, index, pk) ==
  [coltype |-> coltype, default |-> default, notnull |-> notnull,
   index |-> index, pk |-> pk]

AddCall(name, a, values) == [name |-> name, a |-> a, values |-> values]

\* the ordered keyword argument lists with distinct keys from keys, of the
\* lengths in lens, with values from args
KwLists(keys, args, lens) ==
  UNION {{kw \in [1..n -> [key : keys, val : args]] :
            \A i, j \in 1..n : kw[i].key = kw[j].key => i = j} : n \in lens}

\* the value arguments explored by append
AppendArgs ==
  {Scalar(1), SeqArg(<<>>), SeqArg(<<2>>), SeqArg(<<1, 2>>),
   SeqArg(<<2, Null>>), SeqArg(<<2, 1, 2>>)}

\* the attributes defined in the row-insertion machine: a has no default, b
\* is NOT NULL with a default
AppendAddCalls ==
  {AddCall("a", Attr("int", Null, FALSE, "none", FALSE), NoValues),
   AddCall("b", Attr("int", 1, TRUE, "none", FALSE), NoValues)}

\* the calls of append explored: every argument list over a and b, and some
\* that name c, which is never an attribute in this machine
AppendKw ==
  KwLists({"a", "b"}, AppendArgs, {0, 1, 2})
    \cup KwLists({"a", "c"}, {Scalar(1), SeqArg(<<1, 2>>)}, {1, 2})

NextAppend ==
  \/ \E c \in AppendAddCalls : AddAttrAct("A", c)
  \/ \E kw \in AppendKw : AppendAct("A", kw, MaxRows)

SpecAppend == Init /\ [][NextAppend]_vars

\* the calls of add_attribute explored in the column-assignment machine: a
\* is a plain attribute, c is indexed
SetAddCalls ==
  {AddCall("a", Attr("int", Null, FALSE, "none", FALSE), v) :
     v \in {NoValues, Scalar(1), SeqArg(<<1, 2>>)}}
  \cup {AddCall("c", Attr("int", Null, FALSE, "index", FALSE), v) :
          v \in {NoValues, SeqArg(<<2, 1>>)}}

\* the calls of append explored in the column-assignment machine
SetRowCalls ==
  {<<[key |-> "a", val |-> Scalar(1)]>>,
   <<[key |-> "a", val |-> SeqArg(<<1, 2>>)]>>,
   <<[key |-> "a", val |-> Scalar(2)], [key |-> "c", val |-> Scalar(1)]>>,
   <<[key |-> "c", val |-> SeqArg(<<2, 1>>)], [key |-> "a", val |-> SeqArg(<<1, 2>>)]>>}

\* the values assigned to a column
SetArgs ==
  {Scalar(2), Scalar(Null), SeqArg(<<>>), SeqArg(<<1>>), SeqArg(<<1, 2>>),
   SeqArg(<<2, 1>>), SeqArg(<<1, 2, 1>>)}

NextSet ==
  \/ \E c \in SetAddCalls : AddAttrAct("A", c)
  \/ \E kw \in SetRowCalls : AppendAct("A", kw, MaxRows)
  \/ \E key \in Names, value \in SetArgs : SetItemAct("A", key, value)

SpecSet == Init /\ [][NextSet]_vars

\* the calls of add_attribute explored in the schema machine
AddCalls ==
  {AddCall("a", Attr("int", Null, FALSE, "none", FALSE), NoValues),
   AddCall("b", Attr("float", 1, TRUE, "none", FALSE), NoValues),
   AddCall("c", Attr("str", 2, FALSE, "index", FALSE), NoValues)}

\* the calls of append explored in the schema machine
RowCalls ==
  {<<[key |-> "a", val |-> Scalar(1)]>>,
   <<[key |-> "a", val |-> Scalar(1)], [key |-> "b", val |-> Scalar(2)]>>}

\* the statement of the rebuild script at which the store fails
FailPoints == {"none", "create", "drop", "rename"}

Next ==
  \/ \E c \in AddCalls : AddAttrAct("A", c)
  \/ \E kw \in RowCalls : AppendAct("A", kw, MaxSchemaRows)
  \/ \E key \in Names, failAt \in FailPoints : DelItemAct("A", key, failAt)

Spec == Init /\ [][Next]_vars

\* the calls of add_attribute explored in the comparison machine
CmpAddCalls ==
  {AddCall("a", Attr("int", Null, FALSE, "none", FALSE), NoValues),
   AddCall("b", Attr("int", Null, FALSE, "none", FALSE), NoValues)}

\* the calls of append explored in the comparison machine
CmpRowCalls ==
  {<<[key |-> "a", val |-> Scalar(1)]>>,
   <<[key |-> "b", val |-> Scalar(2)]>>,
   <<[key |-> "a", val |-> Scalar(1)], [key |-> "b", val |-> Scalar(2)]>>}

\* the column assignments explored in the comparison machine
CmpSetCalls ==
  {[key |-> "a", val |-> Scalar(2)]}

NextCmp ==
  \/ \E h \in Handles, c \in CmpAddCalls : AddAttrAct(h, c)
  \/ \E h \in Handles, kw \in CmpRowCalls : AppendAct(h, kw, MaxCmpRows)
  \/ \E h \in Handles, c \in CmpSetCalls : SetItemAct(h, c.key, c.val)
  \/ \E h, o \in Handles : EqualsAct(h, o)
  \/ \E h, o \in Handles : DiffAct(h, o)

SpecCmp == InitCmp /\ [][NextCmp]_vars

\* the calls of add_attribute explored on A in the attribute-definition
\* machine: a plain, as primary key, NOT NULL without default and with
\* values; c with a default and an index, or as primary key
DefAddCallsA ==
  {AddCall("a", Attr("int", Null, FALSE, "none", FALSE), NoValues),
   AddCall("a", Attr("int", Null, FALSE, "none", TRUE), NoValues),
   AddCall("a", Attr("int", Null, TRUE, "none", FALSE), NoValues),
   AddCall("a", Attr("int", Null, FALSE, "none", FALSE), Scalar(1)),
   AddCall("a", Attr("int", Null, FALSE, "none", FALSE), SeqArg(<<1, 2>>)),
   AddCall("c", Attr("int", 2, FALSE, "index", FALSE), NoValues),
   AddCall("c", Attr("int", 2, FALSE, "unique", FALSE), NoValues),
   AddCall("c", Attr("int", 2, FALSE, "none", TRUE), NoValues)}

\* the call of add_attribute explored on B
DefAddCallsB ==
  {AddCall("c", Attr("int", 2, FALSE, "index", FALSE), NoValues)}

\* the calls of append explored in the attribute-definition machine
DefRowCalls ==
  {<<[key |-> "a", val |-> Scalar(1)]>>,
   <<[key |-> "c", val |-> Scalar(1)]>>}

NextAdd ==
  \/ \E c \in DefAddCallsA : AddAttrAct("A", c)
  \/ \E c \in DefAddCallsB : AddAttrAct("B", c)
  \/ \E kw \in DefRowCalls : AppendAct("A", kw, MaxAddRows)

SpecAdd == InitCmp /\ [][NextAdd]_vars

-----------------------------------------------------------------------------
(* Row insertion: claims C1 and C2, specification SpecAppend           *)

\* the attribute names an argument list supplies
Supplied(kw) == {kw[i].key : i \in DOMAIN kw}

\* the value argument supplied for key
ArgOf(kw, key) == kw[CHOOSE i \in DOMAIN kw : kw[i].key = key].val

\* the lengths of the supplied sequences longer than 1
LongLengths(kw) == {length_of_values(kw[i].val) : i \in DOMAIN kw} \ {0, 1}

\* the implied row count: the common length of the sequences longer than 1,
\* or 1 if there is none
ImpliedRows(kw) == IF LongLengths(kw) = {} THEN 1 ELSE Max(LongLengths(kw))

\* the table the broadcasting rule prescribes after append(kw) on t
Broadcasted(t, kw) ==
  LET n    == ImpliedRows(kw)
      base == IF t.rows = <<>> THEN 0 ELSE Max(RowIds(t))
      cell(key, r) ==
        IF key \in Supplied(kw)
        THEN IF length_of_values(ArgOf(kw, key)) <= 1
             THEN ArgOf(kw, key).s[1]
             ELSE ArgOf(kw, key).s[r]
        ELSE ColOf(t, key).dflt
  IN [t EXCEPT !.rows = t.rows \o
        [r \in 1..n |-> [id |-> base + r,
                         v |-> [key \in NameSet(t) |-> cell(key, r)]]]]

\* C1: append is all-or-nothing: after append returns or raises, either
\* exactly the n requested rows have been added (n the implied row count)
\* or the rows and the schema of the table are exactly as before the call.
C1_AppendAllOrNothing ==
  [][res'.op = "append" =>
       LET t == tbl[res'.h]
           u == tbl'[res'.h]
       IN \/ u = t
          \/ /\ res'.out = "ok"
             /\ u.cols = t.cols
             /\ CountRows(u) = CountRows(t) + ImpliedRows(res'.kw)
             /\ SubSeq(u.rows, 1, CountRows(t)) = t.rows]_vars

\* C2: broadcasting rule of append: for supplied existing attributes, in any
\* order, append raises ValueCountMismatchError iff some supplied sequence
\* has a length that is neither 0, 1 nor the implied row count n; otherwise
\* (the attributes not supplied having defaults and the store accepting the
\* rows) it adds exactly n rows: scalars and length-1 sequences repeated,
\* length-n sequences used positionally, defaults for the rest.
C2_BroadcastingRule ==
  [][(/\ res'.op = "append"
      /\ tbl[res'.h].exists
      /\ Supplied(res'.kw) \subseteq NameSet(tbl[res'.h])
      /\ \A i \in DOMAIN res'.kw : res'.kw[i].val # SeqArg(<<>>)) =>
       LET t  == tbl[res'.h]
           u  == tbl'[res'.h]
           kw == res'.kw
       IN IF Cardinality(LongLengths(kw)) > 1
          THEN res'.out = "ValueCountMismatchError" /\ u = t
          ELSE /\ res'.out # "ValueCountMismatchError"
               /\ (~MissingDefault(t, kw) /\ ~ViolatesConstraint(Broadcasted(t, kw)))
                    => (res'.out = "ok" /\ u = Broadcasted(t, kw))]_vars

\* the part of C2 that the code satisfies: the same statement for calls that
\* supply at least one attribute
C2_BroadcastingRuleNonEmpty ==
  [][(/\ res'.op = "append"
      /\ tbl[res'.h].exists
      /\ res'.kw # <<>>
      /\ Supplied(res'.kw) \subseteq NameSet(tbl[res'.h])
      /\ \A i \in DOMAIN res'.kw : res'.kw[i].val # SeqArg(<<>>)) =>
       LET t  == tbl[res'.h]
           u  == tbl'[res'.h]
           kw == res'.kw
       IN IF Cardinality(LongLengths(kw)) > 1
          THEN res'.out = "ValueCountMismatchError" /\ u = t
          ELSE /\ res'.out # "ValueCountMismatchError"
               /\ (~MissingDefault(t, kw) /\ ~ViolatesConstraint(Broadcasted(t, kw)))
                    => (res'.out = "ok" /\ u = Broadcasted(t, kw))]_vars

-----------------------------------------------------------------------------
(* Column assignment: claim C3, specification SpecSet                     *)

\* the contract of assigning value to the column key of t, u being the
\* table afterwards: rowids, row count and the other attributes unchanged; a
\* sequence of one value per row read back as it was given, a scalar or a
\* length-1 sequence read back as one copy per row, any other length rejected
RoundTrip(t, u, key, value, out) ==
  LET n   == CountRows(t)
      len == length_of_values(value)
  IN /\ RowIds(u) = RowIds(t)
     /\ CountRows(u) = n
     /\ \A id \in RowIds(t) : \A k \in NameSet(t) \ {key} :
           RowOf(u, id).v[k] = RowOf(t, id).v[k]
     /\ IF value.k = "seq" /\ len = n
        THEN out = "ok" /\ GetItem(u, key) = value.s
        ELSE IF len <= 1
        THEN out = "ok" /\ GetItem(u, key) = [i \in 1..n |-> value.s[1]]
        ELSE out = "ValueCountMismatchError"

\* C3: set/get round trip: on a table with n >= 1 rows, set(attr, vs) with a
\* sequence of length n followed by get(attr) returns vs in the same order,
\* a scalar or length-1 value makes get(attr) return n copies, any other
\* length raises ValueCountMismatchError, and rowids, row count and the
\* other attributes are unchanged; the same holds for the values passed
\* through add_attribute(name, values=vs).
C3_SetGetRoundTrip ==
  [][/\ (/\ res'.op = "set"
         /\ res'.key \in NameSet(tbl[res'.h])
         /\ CountRows(tbl[res'.h]) >= 1
         /\ res'.value # SeqArg(<<>>))
          => /\ ColNames(tbl'[res'.h]) = ColNames(tbl[res'.h])
             /\ RoundTrip(tbl[res'.h], tbl'[res'.h], res'.key, res'.value, res'.out)
     /\ (/\ res'.op = "add_attribute"
         /\ res'.value \notin {NoValues, SeqArg(<<>>)}
         /\ res'.key \notin NameSet(tbl[res'.h])
         /\ CountRows(tbl[res'.h]) >= 1)
          => RoundTrip(tbl[res'.h], tbl'[res'.h], res'.key, res'.value,
                       res'.out)]_vars

-----------------------------------------------------------------------------
(* Comparison: claims C4 to C8, specification SpecCmp                  *)

\* the (row identifier, value tuple) pairs of t, the tuple holding the value
\* of every attribute in definition order
Snapshot(t) ==
  {<<r.id, [i \in DOMAIN t.cols |-> r.v[t.cols[i].name]]>> : r \in Range(t.rows)}

\* h == o evaluated in the current state
EqualsNow(h, o) ==
  Equals(tbl[h], tbl[o], file[h] # file[o], attached[file[h]])

\* h.diff(o) evaluated in the current state
DiffNow(h, o) ==
  Diff(tbl[h], tbl[o], file[h] # file[o], attached[file[h]])

ExpectedChanged(self, other) ==
  LET shared == NameSet(self) \cap NameSet(other)
      differing(id) ==
        {k \in shared : RowOf(self, id).v[k] # RowOf(other, id).v[k]}
  IN {<<id, {<<k, RowOf(other, id).v[k], RowOf(self, id).v[k]>> :
               k \in differing(id)}>> :
        id \in {i \in RowIds(self) \cap RowIds(other) : differing(i) # {}}}

\* C5: the "changed" part of diff(A, B) contains exactly the row identifiers
\* present in both tables whose values differ in at least one shared column,
\* each with exactly the shared columns that differ and both values.
C5_DiffChanged ==
  (res.op = "diff" /\ res.out = "ok") =>
     res.report.changed = ExpectedChanged(tbl[res.h], tbl[res.o])

\* the part of C5 that the code satisfies: the same statement for two
\* tables whose shared attributes are defined in the same order
C5_DiffChangedSameOrder ==
  (/\ res.op = "diff" /\ res.out = "ok"
   /\ (NameSet(tbl[res.h]) = NameSet(tbl[res.o])
         => ColNames(tbl[res.h]) = ColNames(tbl[res.o]))) =>
     res.report.changed = ExpectedChanged(tbl[res.h], tbl[res.o])

\* C6: antisymmetry of diff: for tables that share at least one column,
\* whenever diff(A, B) and diff(B, A) return, the "added" entries of the one
\* are the "removed" entries of the other, and vice versa.
C6_DiffAntisymmetric ==
  (/\ res.op = "diff" /\ res.out = "ok"
   /\ NameSet(tbl[res.h]) \cap NameSet(tbl[res.o]) # {}
   /\ DiffNow(res.o, res.h).out = "ok") =>
     /\ res.report.added = DiffNow(res.o, res.h).val.removed
     /\ res.report.removed = DiffNow(res.o, res.h).val.added
     /\ res.report.addedCols = DiffNow(res.o, res.h).val.removedCols
     /\ res.report.removedCols = DiffNow(res.o, res.h).val.addedCols

\* diff of two tables of different stores that share a column reported an
\* added row
C6_Witness ==
  /\ res.op = "diff" /\ res.out = "ok"
  /\ res.h # res.o /\ file[res.h] # file[res.o]
  /\ NameSet(tbl[res.h]) \cap NameSet(tbl[res.o]) # {}
  /\ res.report.added # {}
  /\ DiffNow(res.o, res.h).out = "ok"

\* the two tables have the same attribute names in the same order, the same
\* row identifiers and the same values
Identical(t, u) ==
  /\ t.exists /\ u.exists
  /\ ColNames(t) = ColNames(u)
  /\ Snapshot(t) = Snapshot(u)

C8_AliasDetached == \A s \in Stores : ~attached[s]

-----------------------------------------------------------------------------
(* Attribute removal: claims C9 and C10, specification Spec               *)

\* C9: remove_attribute is atomic: if the store fails during the rebuild,
\* the original table is still present under its name with all its
\* attributes and rows.
C9_RemoveAtomic ==
  [][(res'.op = "del" /\ res'.out # "ok") => tbl'[res'.h] = tbl[res'.h]]_vars

\* name, type, notnull and default of the columns of t, in definition order
Definitions(t) ==
  [i \in DOMAIN t.cols |->
     [name |-> t.cols[i].name, type |-> t.cols[i].type,
      notnull |-> t.cols[i].notnull, dflt |-> t.cols[i].dflt]]

\* the sequence s without the elements that satisfy name = key
RECURSIVE Without(_, _)
Without(s, key) ==
  IF s = <<>> THEN <<>>
  ELSE IF Head(s).name = key THEN Without(Tail(s), key)
  ELSE <<Head(s)>> \o Without(Tail(s), key)

\* C10: remove_attribute(name) on a table with at least two attributes
\* leaves the remaining attributes in their original order with their
\* original definitions (type, notnull, default), the row count unchanged
\* and the values of every row for the remaining attributes unchanged.
C10_RemoveFrame ==
  [][(/\ res'.op = "del" /\ res'.out = "ok"
      /\ Len(tbl[res'.h].cols) >= 2) =>
       LET t == tbl[res'.h]
           u == tbl'[res'.h]
       IN /\ Definitions(u) = Without(Definitions(t), res'.key)
          /\ CountRows(u) = CountRows(t)
          /\ \E p \in Perms(DOMAIN t.rows) : \A i \in DOMAIN t.rows :
                \A k \in NameSet(t) \ {res'.key} :
                   u.rows[i].v[k] = t.rows[p[i]].v[k]]_vars

-----------------------------------------------------------------------------
(* Removal followed by re-adding: claim C11, specification Spec            *)

\* C11: an add_attribute without values that directly follows the removal of
\* an attribute of the same name (in particular with the same type) and
\* succeeds yields a column in which every existing row holds the
\* attribute's default, whatever the column held before the removal, and
\* the row count is the one before the removal.
C11_ReAddYieldsDefaults ==
  (/\ res.op = "add_attribute" /\ res.out = "ok"
   /\ res.old # NoOld
   /\ res.value = NoValues) =>
     /\ res.key \in NameSet(tbl[res.h])
     /\ CountRows(tbl[res.h]) = Len(res.old.vals)
     /\ \A r \in Range(tbl[res.h].rows) :
           r.v[res.key] = ColOf(tbl[res.h], res.key).dflt

\* an attribute whose row held a value other than the default was removed
\* and re-added with the same type
C11_Witness ==
  /\ res.op = "add_attribute" /\ res.out = "ok"
  /\ res.value = NoValues
  /\ res.old.type = DeclType(res.a.coltype)
  /\ \E i \in DOMAIN res.old.vals : res.old.vals[i] # res.a.default
  /\ res.a.default # Null

-----------------------------------------------------------------------------
(* Attribute definition: claims C12 to C14, specification SpecAdd          *)

\* the validation errors the claim prescribes for add_attribute(name, a) on t
Prescribed(t, name, a) ==
  (IF name \in NameSet(t) THEN {"DuplicateAttributeError"} ELSE {})
    \cup (IF t.exists /\ a.pk THEN {"InvalidPrimaryKeyError"} ELSE {})
    \cup (IF a.notnull /\ ~a.pk /\ a.default = Null
          THEN {"MissingDefaultError"} ELSE {})

\* C12: add_attribute validation: a call fails with DuplicateAttributeError
\* if the name exists, with InvalidPrimaryKeyError if primary_key is
\* requested on an existing table, with MissingDefaultError if notnull is
\* requested without primary_key and default (one of them when several
\* apply); a call in none of these cases and without values succeeds and
\* makes the new name the last attribute, after the earlier ones in order.
C12_AddAttributeValidation ==
  [][res'.op = "add_attribute" =>
       LET t    == tbl[res'.h]
           u    == tbl'[res'.h]
           errs == Prescribed(t, res'.key, res'.a)
       IN /\ errs # {} => res'.out \in errs
          /\ (errs = {} /\ res'.value = NoValues) =>
                /\ res'.out = "ok"
                /\ ColNames(u) = Append(ColNames(t), res'.key)]_vars

\* the part of C12 that the code satisfies: the same statement, the success
\* being claimed for the calls that request no index
C12_AddAttributeValidationNoIndex ==
  [][res'.op = "add_attribute" =>
       LET t    == tbl[res'.h]
           u    == tbl'[res'.h]
           errs == Prescribed(t, res'.key, res'.a)
       IN /\ errs # {} => res'.out \in errs
          /\ (errs = {} /\ res'.value = NoValues /\ res'.a.index = "none") =>
                /\ res'.out = "ok"
                /\ ColNames(u) = Append(ColNames(t), res'.key)]_vars

\* C13: a failed add_attribute leaves the table unmodified: whenever
\* add_attribute raises (validation error, ValueCountMismatchError, or a
\* store failure while creating the index or assigning the values), the
\* attributes, their definitions, the indexes and the rows of the table are
\* exactly as before the call.
C13_FailedAddLeavesTable ==
  [][(res'.op = "add_attribute" /\ res'.out # "ok") =>
       tbl'[res'.h] = tbl[res'.h]]_vars

\* the part of C13 that the code satisfies: the same statement for the
\* calls rejected by the validation or for the length of their values
C13_RejectedAddLeavesTable ==
  [][(/\ res'.op = "add_attribute"
      /\ res'.out \in {"DuplicateAttributeError", "InvalidPrimaryKeyError",
                       "MissingDefaultError", "ValueCountMismatchError"}) =>
       tbl'[res'.h] = tbl[res'.h]]_vars

\* in every table every attribute reported as primary key is NOT NULL and is
\* the first attribute
PrimaryKeyFirst(tables) ==
  \A h \in Handles : \A i \in DOMAIN tables[h].cols :
     tables[h].cols[i].pk => (tables[h].cols[i].notnull /\ i = 1)

\* C14: primary-key creation: add_attribute with primary_key on a table that
\* does not exist yet creates the table with exactly that attribute, whose
\* reported definition has primary_key = true and notnull = true; in every
\* reachable state an attribute with primary_key = true has notnull = true
\* and is the first attribute of its table.
C14_PrimaryKeyCreation ==
  [][/\ (/\ res'.op = "add_attribute" /\ res'.a.pk
          /\ ~tbl[res'.h].exists
          /\ res'.value = NoValues) =>
            LET u == tbl'[res'.h]
            IN /\ res'.out = "ok"
               /\ ColNames(u) = <<res'.key>>
               /\ u.cols[1].pk
               /\ u.cols[1].notnull
     /\ PrimaryKeyFirst(tbl')]_vars

\* the part of C14 that the code satisfies: the table is created with
\* exactly that attribute, reported with notnull = true, and no attribute
\* other than a first, NOT NULL one is ever reported as primary key
C14_PrimaryKeyCreationNotNull ==
  [][/\ (/\ res'.op = "add_attribute" /\ res'.a.pk
          /\ ~tbl[res'.h].exists
          /\ res'.value = NoValues) =>
            LET u == tbl'[res'.h]
            IN /\ res'.out = "ok"
               /\ ColNames(u) = <<res'.key>>
               /\ u.cols[1].notnull
     /\ PrimaryKeyFirst(tbl')]_vars

====
